---- MODULE Spec2Model ----
(***************************************************************************)
(* The weather tool server of src/weather.py: the fetcher get_weather_data *)
(* and the two tools get_alerts and get_forecast, run by one event loop    *)
(* against the upstream weather API.                                       *)
(*                                                                         *)
(* A tool call runs without interruption between two awaits, so a step of  *)
(* the model is either the entry of a call up to its first client.get, or  *)
(* the arrival of the upstream's answer followed by everything the call    *)
(* does until its next client.get, its return or its uncaught exception.   *)
(*                                                                         *)
(* JSON objects are functions from their keys (a missing key is a key      *)
(* outside DOMAIN), JSON arrays are sequences, JSON scalars are tagged     *)
(* records.  A text is the sequence of the literal and interpolated pieces *)
(* it is built from; the string is their concatenation.                    *)
(***************************************************************************)
EXTENDS Integers, Sequences, FiniteSets, TLC

VARIABLES
    pc,         \* where the current tool call stands
    op,         \* the tool that was called
    args,       \* its arguments
    inflight,   \* the GET requests sent and not yet answered
    gets,       \* client.get calls made by the current tool call
    log,        \* the fetcher invocations finished in the current tool call
    forecasts,  \* the list bound to the name `forecasts` of get_forecast
    result,     \* the text the tool call returned
    exc,        \* the exception that ended the tool call
    ref,        \* an earlier finished call, kept to compare later calls with
    since       \* tool calls started after ref was kept

vars == <<pc, op, args, inflight, gets, log, forecasts, result, exc, ref, since>>

----------------------------------------------------------------------------
\* Bounds of the upstream's answers and of the runs explored.

MaxPeriods == 20
MaxFeatures == 2
IdemPeriods == 2
MaxCallsAfterRef == 2

----------------------------------------------------------------------------
\* Python and JSON values.

Null == [t |-> "null"]
None == Null
Str(s) == [t |-> "str", v |-> s]
Num(n) == [t |-> "num", v |-> n]
Float(w, f) == [t |-> "float", whole |-> w, frac |-> f]
EmptyDict == <<>>
Unbound == [t |-> "unbound"]

\* str(x), as an f-string field formats it
PyStr(x) ==
    CASE x.t = "str" -> x.v
      [] x.t = "num" -> ToString(x.v)
      [] x.t = "float" -> ToString(x.whole) \o "." \o ToString(x.frac)
      [] x.t = "null" -> "None"

\* `k in d` for a decoded object d
Has(d, k) == k \in DOMAIN d

\* `not x` for a payload or an object
Falsy(x) == x = None \/ DOMAIN x = {}

\* `not x` for a list
Empty(x) == Len(x) = 0

\* the exception of d[k] when it has none
SubscriptError(d) == IF d = None THEN "TypeError" ELSE "KeyError"

Drop(d, k) == [f \in DOMAIN d \ {k} |-> d[f]]

Min(a, b) == IF a < b THEN a ELSE b

----------------------------------------------------------------------------
\* Module constants and the request of the fetcher.

NWS_API_BASE == "https://api.weather.gov"
USER_AGENT == "weather-app/1.0"
TIMEOUT == 35

Headers == [UserAgent |-> USER_AGENT, Accept |-> "application/geo+json"]

Request(url) == [url |-> url, headers |-> Headers, timeout |-> TIMEOUT]

AlertsUrl(state) == Str(NWS_API_BASE \o "/alerts/active/area/" \o state)

PointsUrl(latitude, longitude) ==
    Str(NWS_API_BASE \o "/points/" \o PyStr(latitude) \o "," \o PyStr(longitude))

----------------------------------------------------------------------------
\* The fetcher.

\* response.raise_for_status() passes
IsSuccess(status) == status >= 200 /\ status <= 299

\* a narrower handler, which lets a decoding error through
ExceptHttpOnly(e) ==
    IF e = "JSONDecodeError" THEN [do |-> "raise", ret |-> None, exc |-> e]
    ELSE [do |-> "return", ret |-> None, exc |-> "none"]

\* a handler that sends the request again
ExceptRetry(e) == [do |-> "retry", ret |-> None, exc |-> "none"]

\* except Exception: return None
ExceptClause(e) == [do |-> "return", ret |-> None, exc |-> "none"]

\* the try block of get_weather_data on the outcome resp of client.get
get_weather_data(resp) ==
    IF resp.kind # "http" THEN ExceptClause(resp.kind)
    ELSE IF ~IsSuccess(resp.status) THEN ExceptClause("HTTPStatusError")
    ELSE IF ~resp.body.ok THEN ExceptClause("JSONDecodeError")
    ELSE [do |-> "return", ret |-> resp.body.json, exc |-> "none"]

----------------------------------------------------------------------------
\* Texts.

Sep == "\n---\n"

RECURSIVE Join(_, _)
\* sep.join(blocks)
Join(blocks, sep) ==
    IF blocks = <<>> THEN <<>>
    ELSE IF Len(blocks) = 1 THEN Head(blocks)
    ELSE Head(blocks) \o <<sep>> \o Join(Tail(blocks), sep)

UnableText == <<"Unable to fetch alerts!">>
NoAlertsText == <<"No active alerts for this state">>
NoDataText == <<"No Data Found">>
\* the second failure text, copied from the first
NoForecastTextCopied == <<"No Data Found">>
NoForecastText == <<"No Forecast Data Found">>

\* properties.get(k, default), formatted
GetOr(properties, k, default) ==
    IF Has(properties, k) THEN PyStr(properties[k]) ELSE default

\* format_alert with one fallback text for every field
format_alert_one_fallback(feature) ==
    LET properties == feature["properties"] IN
    << "\nEvent: ", GetOr(properties, "event", "Unknown"),
       "\nArea: ", GetOr(properties, "areaDesc", "Unknown"),
       "\nSeverity: ", GetOr(properties, "severity", "Unknown"),
       "\nDescription: ", GetOr(properties, "description", "Unknown"),
       "\nInstruction: ", GetOr(properties, "instruction", "Unknown"),
       "\n" >>

format_alert(feature) ==
    LET properties == feature["properties"] IN
    << "\nEvent: ", GetOr(properties, "event", "Unknown"),
       "\nArea: ", GetOr(properties, "areaDesc", "Unknown"),
       "\nSeverity: ", GetOr(properties, "severity", "Unknown"),
       "\nDescription: ", GetOr(properties, "description", "No Description"),
       "\nInstruction: ", GetOr(properties, "instruction", "No Specific Instruction"),
       "\n" >>

\* the keys the f-string of get_forecast subscripts a period with
PeriodKeys ==
    {"name", "temperature", "temperatureUnit", "windSpeed", "windDirection",
     "probabilityOfPrecipitation", "detailedForecast"}

\* no subscript of the f-string raises
PeriodComplete(period) ==
    /\ PeriodKeys \subseteq DOMAIN period
    /\ Has(period["probabilityOfPrecipitation"], "value")

\* the f-string of get_forecast for a complete period
format_period(period) ==
    << "\n", PyStr(period["name"]),
       ":\nTemperature: ", PyStr(period["temperature"]),
       " Degrees ", PyStr(period["temperatureUnit"]),
       "\nWind: ", PyStr(period["windSpeed"]),
       " ", PyStr(period["windDirection"]),
       "\nPrecipitation: ", PyStr(period["probabilityOfPrecipitation"]["value"]),
       "%\nDetailed Forecast: ", PyStr(period["detailedForecast"]) >>

ForecastLimit == 7

\* the loop over every period
AllPeriods(periods) == periods

\* periods[:7]
FirstPeriods(periods) == SubSeq(periods, 1, Min(ForecastLimit, Len(periods)))

\* the list the previous call left
StaleForecastList == forecasts

\* forecasts = []
NewForecastList == <<>>

RECURSIVE ForecastLoopSkipping(_, _)
\* a loop that leaves an incomplete period out instead of raising
ForecastLoopSkipping(ps, acc) ==
    IF ps = <<>> THEN [exc |-> "none", forecasts |-> acc]
    ELSE IF ~PeriodComplete(Head(ps))
         THEN ForecastLoopSkipping(Tail(ps), acc)
         ELSE ForecastLoopSkipping(Tail(ps), Append(acc, format_period(Head(ps))))

RECURSIVE ForecastLoop(_, _)
\* the for loop of get_forecast over ps, appending to acc
ForecastLoop(ps, acc) ==
    IF ps = <<>> THEN [exc |-> "none", forecasts |-> acc]
    ELSE IF ~PeriodComplete(Head(ps))
         THEN [exc |-> "KeyError", forecasts |-> acc]
         ELSE ForecastLoop(Tail(ps), Append(acc, format_period(Head(ps))))

----------------------------------------------------------------------------
\* The tools, between two awaits.

Return(text) == [pc |-> "returned", result |-> Str(text), exc |-> "none"]
Raise(e) == [pc |-> "raised", result |-> Unbound, exc |-> e]

\* the first test of get_alerts without its second half
AlertsUnavailableNoKeyTest(data) == Falsy(data)

\* not data or "features" not in data
AlertsUnavailable(data) == Falsy(data) \/ ~Has(data, "features")

\* a get_alerts that never takes the empty branch
NoFeaturesNever(data) == FALSE

\* not data["features"]
NoFeatures(data) == Empty(data["features"])

\* get_alerts after its fetch returned data
get_alerts_body(data) ==
    IF AlertsUnavailable(data) THEN Return(UnableText)
    ELSE IF ~Has(data, "features") THEN Raise(SubscriptError(data))
    ELSE IF NoFeatures(data) THEN Return(NoAlertsText)
    ELSE LET features == data["features"] IN
         IF \E i \in 1..Len(features) : ~Has(features[i], "properties")
         THEN Raise("KeyError")
         ELSE Return(Join([i \in 1..Len(features) |-> format_alert(features[i])], Sep))

\* a forecast URL built locally instead of read from the points payload
ForecastUrlBuilt(points_data) == Str(NWS_API_BASE \o "/forecast")

\* points_data["properties"]["forecast"]
ForecastUrlOf(points_data) == points_data["properties"]["forecast"]

\* get_forecast after its first fetch returned points_data: the text or the
\* exception it ends with, or the URL of its second fetch
get_forecast_points(points_data) ==
    IF Falsy(points_data) THEN Return(NoDataText)
    ELSE IF ~Has(points_data, "properties") THEN Raise("KeyError")
    ELSE IF ~Has(points_data["properties"], "forecast") THEN Raise("KeyError")
    ELSE [pc |-> "forecast_await", url |-> ForecastUrlOf(points_data)]

\* get_forecast after its second fetch returned forecast_data
get_forecast_body(forecast_data) ==
    IF Falsy(forecast_data) THEN Return(NoForecastText) @@ [forecasts |-> forecasts]
    ELSE IF ~Has(forecast_data, "properties")
         THEN Raise("KeyError") @@ [forecasts |-> forecasts]
    ELSE IF ~Has(forecast_data["properties"], "periods")
         THEN Raise("KeyError") @@ [forecasts |-> forecasts]
    ELSE LET periods == forecast_data["properties"]["periods"]
             loop == ForecastLoop(FirstPeriods(periods), NewForecastList)
         IN  IF loop.exc # "none"
             THEN Raise(loop.exc) @@ [forecasts |-> loop.forecasts]
             ELSE Return(Join(loop.forecasts, Sep)) @@ [forecasts |-> loop.forecasts]

----------------------------------------------------------------------------
\* The upstream: the payloads it may send and the outcomes of one client.get.

FORECAST_URL == "https://api.weather.gov/gridpoints/SEW/124,67/forecast"

AlertKeys == {"event", "areaDesc", "severity", "description", "instruction"}

FullProperties(i) ==
    [event |-> Str("Event" \o ToString(i)),
     areaDesc |-> Str("Area" \o ToString(i)),
     severity |-> Str("Severe"),
     description |-> Str("Description" \o ToString(i)),
     instruction |-> Str("Instruction" \o ToString(i))]

FeatureVariants == AlertKeys \cup {"full", "bare", "null_instruction", "no_properties"}

\* the i-th feature of a payload: complete, without the key v, without any
\* key, with a null instruction, or without its properties
Feature(i, v) ==
    CASE v = "full" -> [id |-> Num(i), properties |-> FullProperties(i)]
      [] v = "bare" -> [id |-> Num(i), properties |-> EmptyDict]
      [] v = "null_instruction" ->
            [id |-> Num(i), properties |-> [FullProperties(i) EXCEPT !["instruction"] = Null]]
      [] v = "no_properties" -> [id |-> Num(i)]
      [] OTHER -> [id |-> Num(i), properties |-> Drop(FullProperties(i), v)]

AlertsPayload(vs) ==
    [type |-> Str("FeatureCollection"),
     features |-> [i \in 1..Len(vs) |-> Feature(i, vs[i])]]

AlertsPayloads(maxN, variants) ==
    {AlertsPayload(vs) : vs \in UNION {[1..n -> variants] : n \in 0..maxN}}

PointsPayloads ==
    {[properties |-> [gridId |-> Str("SEW"), forecast |-> Str(FORECAST_URL)]],
     [properties |-> [gridId |-> Str("SEW"), forecast |-> Null]],
     [properties |-> [gridId |-> Str("SEW")]]}

Period(i) ==
    [name |-> Str("Period" \o ToString(i)),
     temperature |-> Num(50 + i),
     temperatureUnit |-> Str("F"),
     windSpeed |-> Str(ToString(i) \o " mph"),
     windDirection |-> Str("NW"),
     probabilityOfPrecipitation |->
         [value |-> IF i % 2 = 0 THEN Null ELSE Num(i)],
     detailedForecast |-> Str("Detail" \o ToString(i))]

PeriodDefects == PeriodKeys \cup {"value"}

Defective(period, f) ==
    IF f = "value"
    THEN [period EXCEPT !["probabilityOfPrecipitation"] = EmptyDict]
    ELSE Drop(period, f)

\* a forecast payload of n periods, the k-th (if any) lacking f
ForecastPayload(n, k, f) ==
    [properties |->
        [units |-> Str("us"),
         periods |-> [i \in 1..n |-> IF i = k THEN Defective(Period(i), f) ELSE Period(i)]]]

ForecastPayloads(maxN, defects) ==
    {ForecastPayload(n, 0, "name") : n \in 0..maxN}
    \cup {ForecastPayload(n, k, f) : n \in 1..maxN, k \in 1..maxN, f \in defects}
    \cup {[properties |-> [units |-> Str("us")]]}

OtherPayloads == {EmptyDict, Null, [title |-> Str("Not Found")]}

Payloads ==
    AlertsPayloads(MaxFeatures, FeatureVariants) \cup PointsPayloads
    \cup ForecastPayloads(MaxPeriods, PeriodDefects) \cup OtherPayloads

SamplePayloads ==
    {AlertsPayload(<<"full">>),
     [properties |-> [gridId |-> Str("SEW"), forecast |-> Str(FORECAST_URL)]],
     ForecastPayload(1, 0, "name")}

IdemPayloads ==
    AlertsPayloads(1, {"full"}) \cup SamplePayloads
    \cup ForecastPayloads(IdemPeriods, {"name"}) \cup {EmptyDict}

Bodies(payloads) == {[ok |-> FALSE]} \cup {[ok |-> TRUE, json |-> p] : p \in payloads}

Http(status, body) == [kind |-> "http", status |-> status, body |-> body]

Statuses == {199, 200, 299, 300, 404, 500}

\* what one client.get may end with: an exception of the transport, or a
\* response with a status and a body
Responses(payloads) ==
    {[kind |-> "ConnectError"], [kind |-> "ReadTimeout"]}
    \cup {Http(200, b) : b \in Bodies(payloads)}
    \cup {Http(st, b) : st \in Statuses, b \in Bodies(SamplePayloads)}

AllResponses == Responses(Payloads)
IdemResponses ==
    {[kind |-> "ConnectError"], Http(500, [ok |-> FALSE])}
    \cup {Http(200, b) : b \in Bodies(IdemPayloads)}

\* client.get raises at once for a URL that is no string
Answers(req, responses) ==
    IF req.url.t = "str" THEN responses ELSE {[kind |-> "TypeError"]}

States == {"WA", "XX"}
Coordinates == {<<Float(47, 6), Float(-122, 3)>>, <<Float(0, 0), Float(0, 0)>>}

----------------------------------------------------------------------------
\* The state machine.

NoRef == [t |-> "noref"]
Finished == {"returned", "raised"}

Init ==
    /\ pc = "idle"
    /\ op = "none"
    /\ args = Unbound
    /\ inflight = {}
    /\ gets = 0
    /\ log = <<>>
    /\ forecasts = <<>>
    /\ result = Unbound
    /\ exc = "none"
    /\ ref = NoRef
    /\ since = 0

\* the host calls a tool when the previous call is over
CanCall ==
    /\ pc \in Finished \cup {"idle"}
    /\ ref = NoRef \/ since < MaxCallsAfterRef

\* get_alerts is called and runs up to the client.get of its fetch
get_alerts_call(state) ==
    /\ CanCall
    /\ pc' = "alerts_await"
    /\ op' = "get_alerts"
    /\ args' = [state |-> state]
    /\ inflight' = {Request(AlertsUrl(state))}
    /\ gets' = 1
    /\ log' = <<>>
    /\ result' = Unbound
    /\ exc' = "none"
    /\ since' = IF ref = NoRef THEN since ELSE since + 1
    /\ UNCHANGED <<forecasts, ref>>

\* get_forecast is called and runs up to the client.get of its first fetch
get_forecast_call(latitude, longitude) ==
    /\ CanCall
    /\ pc' = "points_await"
    /\ op' = "get_forecast"
    /\ args' = [latitude |-> latitude, longitude |-> longitude]
    /\ inflight' = {Request(PointsUrl(latitude, longitude))}
    /\ gets' = 1
    /\ log' = <<>>
    /\ result' = Unbound
    /\ exc' = "none"
    /\ since' = IF ref = NoRef THEN since ELSE since + 1
    /\ UNCHANGED <<forecasts, ref>>

\* the log with the fetcher invocation that just ended
Logged(req, resp, out) ==
    Append(log, [url |-> req.url, resp |-> resp, do |-> out.do, ret |-> out.ret])

\* the fetcher does not return: its handler sends the request again, or the
\* exception leaves the fetcher and ends the tool call
NotReturned(req, resp, out) ==
    IF out.do = "retry"
    THEN /\ gets' = gets + 1
         /\ UNCHANGED <<pc, op, args, inflight, log, forecasts, result, exc, ref, since>>
    ELSE /\ pc' = "raised"
         /\ exc' = out.exc
         /\ result' = Unbound
         /\ inflight' = inflight \ {req}
         /\ log' = Logged(req, resp, out)
         /\ UNCHANGED <<op, args, gets, forecasts, ref, since>>

\* the tool call ends with the text or the exception of `end`
Ends(req, resp, out, end) ==
    /\ pc' = end.pc
    /\ result' = end.result
    /\ exc' = end.exc
    /\ inflight' = inflight \ {req}
    /\ log' = Logged(req, resp, out)
    /\ UNCHANGED <<op, args, gets, ref, since>>

\* the alerts request is answered; get_alerts runs to its end
get_alerts_resume(responses) ==
    /\ pc = "alerts_await"
    /\ \E req \in inflight : \E resp \in Answers(req, responses) :
         LET out == get_weather_data(resp) IN
         IF out.do # "return" THEN NotReturned(req, resp, out)
         ELSE /\ Ends(req, resp, out, get_alerts_body(out.ret))
              /\ UNCHANGED forecasts

\* the points request is answered; get_forecast runs to its end or to the
\* client.get of its second fetch
get_forecast_points_resume(responses) ==
    /\ pc = "points_await"
    /\ \E req \in inflight : \E resp \in Answers(req, responses) :
         LET out == get_weather_data(resp) IN
         IF out.do # "return" THEN NotReturned(req, resp, out)
         ELSE LET next == get_forecast_points(out.ret) IN
              IF next.pc = "forecast_await"
              THEN /\ pc' = "forecast_await"
                   /\ inflight' = (inflight \ {req}) \cup {Request(next.url)}
                   /\ gets' = gets + 1
                   /\ log' = Logged(req, resp, out)
                   /\ UNCHANGED <<op, args, forecasts, result, exc, ref, since>>
              ELSE /\ Ends(req, resp, out, next)
                   /\ UNCHANGED forecasts

\* the forecast request is answered; get_forecast runs to its end
get_forecast_resume(responses) ==
    /\ pc = "forecast_await"
    /\ \E req \in inflight : \E resp \in Answers(req, responses) :
         LET out == get_weather_data(resp) IN
         IF out.do # "return" THEN NotReturned(req, resp, out)
         ELSE LET end == get_forecast_body(out.ret) IN
              /\ Ends(req, resp, out, end)
              /\ forecasts' = end.forecasts

\* the finished call is kept, to compare later calls with it
Remember ==
    /\ pc \in Finished
    /\ ref = NoRef
    /\ ref' = [op |-> op, args |-> args, log |-> log, result |-> result, exc |-> exc]
    /\ since' = 0
    /\ UNCHANGED <<pc, op, args, inflight, gets, log, forecasts, result, exc>>

Calls ==
    \/ \E state \in States : get_alerts_call(state)
    \/ \E c \in Coordinates : get_forecast_call(c[1], c[2])

Next ==
    \/ Calls
    \/ get_alerts_resume(AllResponses)
    \/ get_forecast_points_resume(AllResponses)
    \/ get_forecast_resume(AllResponses)

Spec == Init /\ [][Next]_vars

NextIdem ==
    \/ Calls
    \/ get_alerts_resume(IdemResponses)
    \/ get_forecast_points_resume(IdemResponses)
    \/ get_forecast_resume(IdemResponses)
    \/ Remember

SpecIdem == Init /\ [][NextIdem]_vars

----------------------------------------------------------------------------
\* Properties of the tools, and the definitions they are stated with.

Done == pc \in Finished

\* the GET did not yield a decoded payload
Failed(resp) ==
    \/ resp.kind # "http"
    \/ resp.status \notin 200..299
    \/ ~resp.body.ok

RECURSIVE Split(_)
\* the blocks of a text, cut at its separators
Split(text) ==
    IF Len(text) = 0 THEN <<>>
    ELSE LET at == {i \in 1..Len(text) : text[i] = Sep} IN
         IF at = {} THEN <<text>>
         ELSE LET i == CHOOSE j \in at : \A k \in at : j <= k IN
              <<SubSeq(text, 1, i - 1)>> \o Split(SubSeq(text, i + 1, Len(text)))

Chunks(text) == {text[i] : i \in 1..Len(text)}

\* the text of field k of an alert, or its fallback
Shown(properties, k, fallback) ==
    IF k \in DOMAIN properties THEN PyStr(properties[k]) ELSE fallback

\* C1: every fetcher invocation returns to its caller, never raises; it
\* returns None whenever the GET ended in a transport exception, a timeout, a
\* status outside 200-299 or an undecodable body, and returns a payload only
\* when the status is in 200-299 and the body decodes to that payload.
C1_FetcherNeverRaises ==
    \A i \in 1..Len(log) :
        /\ log[i].do = "return"
        /\ Failed(log[i].resp) => log[i].ret = None
        /\ log[i].ret # None =>
              /\ ~Failed(log[i].resp)
              /\ log[i].ret = log[i].resp.body.json

C1_Witness ==
    /\ Len(log) = 2
    /\ log[1].ret # None
    /\ log[2].resp.kind = "http"
    /\ log[2].resp.status = 200
    /\ ~log[2].resp.body.ok
    /\ log[2].ret = None
    /\ pc = "returned"

\* C2: when the alerts fetch returned None or a payload without the key
\* `features`, get_alerts returns exactly "Unable to fetch alerts!".
C2_UnableToFetch ==
    (/\ op = "get_alerts"
     /\ Done
     /\ Len(log) >= 1
     /\ log[1].ret = None \/ "features" \notin DOMAIN log[1].ret)
    => /\ pc = "returned"
       /\ result = Str(<<"Unable to fetch alerts!">>)

C2_Witness ==
    /\ op = "get_alerts"
    /\ Done
    /\ ~Failed(log[1].resp)
    /\ log[1].ret # None
    /\ DOMAIN log[1].ret # {}
    /\ "features" \notin DOMAIN log[1].ret
    /\ result = Str(<<"Unable to fetch alerts!">>)

\* C3: when the points fetch fails get_forecast returns exactly
\* "No Data Found"; when the points fetch succeeds and the fetch of the
\* forecast URL fails it returns exactly "No Forecast Data Found".
C3_ForecastFailureTexts ==
    (op = "get_forecast" /\ Done /\ Len(log) >= 1) =>
        /\ Failed(log[1].resp) =>
              pc = "returned" /\ result = Str(<<"No Data Found">>)
        /\ (Len(log) = 2 /\ ~Failed(log[1].resp) /\ Failed(log[2].resp)) =>
              pc = "returned" /\ result = Str(<<"No Forecast Data Found">>)

C3_Witness ==
    /\ op = "get_forecast"
    /\ Done
    /\ Len(log) = 2
    /\ ~Failed(log[1].resp)
    /\ log[2].resp.kind = "http"
    /\ log[2].resp.status = 500
    /\ result = Str(<<"No Forecast Data Found">>)

\* the forecast payload the second fetch of the call returned
ForecastFetched ==
    /\ op = "get_forecast"
    /\ Done
    /\ Len(log) = 2
    /\ log[2].ret # None
    /\ "properties" \in DOMAIN log[2].ret
    /\ "periods" \in DOMAIN log[2].ret["properties"]

FetchedPeriods == log[2].ret["properties"]["periods"]

\* the period lacks one of the fields a block shows
LacksField(period) ==
    \/ \E k \in {"name", "temperature", "temperatureUnit", "windSpeed",
                 "windDirection", "detailedForecast", "probabilityOfPrecipitation"} :
           k \notin DOMAIN period
    \/ "value" \notin DOMAIN period["probabilityOfPrecipitation"]

Shows(block, period) ==
    /\ Len(block) = 14
    /\ block[1] = "\n"
    /\ block[2] = PyStr(period["name"])
    /\ block[3] = ":\nTemperature: "
    /\ block[4] = PyStr(period["temperature"])
    /\ block[5] = " Degrees "
    /\ block[6] = PyStr(period["temperatureUnit"])
    /\ block[7] = "\nWind: "
    /\ block[8] = PyStr(period["windSpeed"])
    /\ block[9] = " "
    /\ block[10] = PyStr(period["windDirection"])
    /\ block[11] = "\nPrecipitation: "
    /\ block[12] = PyStr(period["probabilityOfPrecipitation"]["value"])
    /\ block[13] = "%\nDetailed Forecast: "
    /\ block[14] = PyStr(period["detailedForecast"])

\* C4: for a forecast payload of N periods whose first min(N,7) periods carry
\* every field, get_forecast returns min(N,7) blocks joined by "\n---\n", the
\* i-th block showing the i-th period's name, temperature and unit, wind
\* speed and direction, precipitation and detailed forecast; no text of a
\* period after the seventh appears.
C4_FirstSevenPeriods ==
    (/\ ForecastFetched
     /\ \A i \in 1..Min(7, Len(FetchedPeriods)) : ~LacksField(FetchedPeriods[i]))
    => /\ pc = "returned"
       /\ LET blocks == Split(result.v)
              n == Len(FetchedPeriods)
          IN  /\ Len(blocks) = Min(n, 7)
              /\ \A i \in 1..Len(blocks) : Shows(blocks[i], FetchedPeriods[i])
              /\ \A i \in 8..n :
                     \A k \in {"name", "detailedForecast"} \cap DOMAIN FetchedPeriods[i] :
                         PyStr(FetchedPeriods[i][k]) \notin Chunks(result.v)

C4_Witness ==
    /\ ForecastFetched
    /\ Len(FetchedPeriods) > 7
    /\ pc = "returned"
    /\ Len(Split(result.v)) = 7
    /\ PyStr(FetchedPeriods[7]["name"]) \in Chunks(result.v)

\* the alerts payload the fetch of the call returned, with its features
AlertsFetched ==
    /\ op = "get_alerts"
    /\ Done
    /\ Len(log) = 1
    /\ log[1].ret # None
    /\ "features" \in DOMAIN log[1].ret

FetchedFeatures == log[1].ret["features"]

ShowsAlert(block, properties) ==
    /\ Len(block) = 11
    /\ block[1] = "\nEvent: "
    /\ block[2] = Shown(properties, "event", "Unknown")
    /\ block[3] = "\nArea: "
    /\ block[4] = Shown(properties, "areaDesc", "Unknown")
    /\ block[5] = "\nSeverity: "
    /\ block[6] = Shown(properties, "severity", "Unknown")
    /\ block[7] = "\nDescription: "
    /\ block[8] = Shown(properties, "description", "No Description")
    /\ block[9] = "\nInstruction: "
    /\ block[10] = Shown(properties, "instruction", "No Specific Instruction")
    /\ block[11] = "\n"

\* C5: for an alerts payload with at least one feature, each feature carrying
\* its properties, get_alerts returns one block per feature, in the order of
\* `features`, separated by "\n---\n"; each block holds the five labelled
\* fields, a field absent from the properties showing its fallback text.
C5_AlertBlocks ==
    (/\ AlertsFetched
     /\ Len(FetchedFeatures) >= 1
     /\ \A i \in 1..Len(FetchedFeatures) : "properties" \in DOMAIN FetchedFeatures[i])
    => /\ pc = "returned"
       /\ LET blocks == Split(result.v) IN
          /\ Len(blocks) = Len(FetchedFeatures)
          /\ \A i \in 1..Len(blocks) :
                 ShowsAlert(blocks[i], FetchedFeatures[i]["properties"])

C5_Witness ==
    /\ AlertsFetched
    /\ Len(FetchedFeatures) = 2
    /\ "properties" \in DOMAIN FetchedFeatures[1]
    /\ DOMAIN FetchedFeatures[1]["properties"] = AlertKeys
    /\ "properties" \in DOMAIN FetchedFeatures[2]
    /\ "description" \notin DOMAIN FetchedFeatures[2]["properties"]
    /\ pc = "returned"
    /\ "No Description" \in Chunks(result.v)
    /\ Len(Split(result.v)) = 2

\* C6: when the alerts fetch succeeds and `features` of the payload is an
\* empty sequence, get_alerts returns exactly "No active alerts for this state".
C6_NoActiveAlerts ==
    (AlertsFetched /\ ~Failed(log[1].resp) /\ Len(FetchedFeatures) = 0)
    => /\ pc = "returned"
       /\ result = Str(<<"No active alerts for this state">>)

C6_Witness ==
    /\ AlertsFetched
    /\ ~Failed(log[1].resp)
    /\ Len(FetchedFeatures) = 0
    /\ result = Str(<<"No active alerts for this state">>)

\* the answers the upstream gave to the fetches of a call
AnswersOf(l) == [i \in 1..Len(l) |-> l[i].resp]

\* the finished call repeats the call that was kept: same tool, same
\* arguments, same answers of the upstream
RepeatsRef ==
    /\ ref # NoRef
    /\ Done
    /\ ref.op = op
    /\ ref.args = args
    /\ AnswersOf(ref.log) = AnswersOf(log)

\* C7: a call with the inputs and the upstream answers of an earlier call
\* ends as that call ended, with the same text or the same exception,
\* whatever calls ran before or between the two.
C7_Idempotent ==
    RepeatsRef => result = ref.result /\ exc = ref.exc /\ pc = IF ref.exc = "none" THEN "returned" ELSE "raised"

C7_Witness ==
    /\ RepeatsRef
    /\ since = 2
    /\ op = "get_forecast"
    /\ pc = "returned"
    /\ Len(log) = 2
    /\ Len(Split(result.v)) = 2
    /\ Len(forecasts) = 2

\* C8: at most one GET of a call is outstanding; while get_forecast awaits
\* its second fetch the points fetch has returned a payload and the one
\* outstanding request targets the URL at properties.forecast of that
\* payload; a second GET exists only after the first fetch returned, and
\* none is sent when the points fetch returned None.
C8_FetchesInOrder ==
    /\ Cardinality(inflight) <= 1
    /\ pc = "forecast_await" =>
          /\ Len(log) = 1
          /\ log[1].do = "return"
          /\ log[1].ret # None
          /\ "properties" \in DOMAIN log[1].ret
          /\ "forecast" \in DOMAIN log[1].ret["properties"]
          /\ inflight = {Request(log[1].ret["properties"]["forecast"])}
    /\ (op = "get_forecast" /\ gets >= 2) => Len(log) >= 1 /\ log[1].ret # None
    /\ (op = "get_forecast" /\ Len(log) >= 1 /\ log[1].ret = None) =>
          gets = 1 /\ inflight = {} /\ Done

C8_Witness ==
    /\ pc = "forecast_await"
    /\ gets = 2
    /\ inflight = {Request(Str(FORECAST_URL))}

\* the points payload the first fetch of a finished get_forecast returned
PointsFetched ==
    /\ op = "get_forecast"
    /\ Done
    /\ Len(log) >= 1
    /\ ~Failed(log[1].resp)
    /\ log[1].ret # None

LacksForecastUrl(points_data) ==
    \/ "properties" \notin DOMAIN points_data
    \/ "forecast" \notin DOMAIN points_data["properties"]

\* a period among the first seven of the fetched forecast lacks a field
EarlyPeriodLacksField ==
    /\ ForecastFetched
    /\ \E i \in 1..Min(7, Len(FetchedPeriods)) : LacksField(FetchedPeriods[i])

EndsInFault == pc = "raised" /\ exc # "none" /\ result = Unbound

\* C9 as stated: whenever the fetched points payload lacks
\* properties.forecast, or a period among the first seven lacks a required
\* field, get_forecast ends in an uncaught exception and returns no text.
C9_AsStated ==
    /\ (PointsFetched /\ LacksForecastUrl(log[1].ret)) => EndsInFault
    /\ EarlyPeriodLacksField => EndsInFault

\* C9, amended: whenever the fetched points payload is not empty and lacks
\* properties.forecast, or a period among the first seven of the fetched
\* forecast lacks a required field, get_forecast ends in an uncaught
\* exception and returns no text; an empty points payload is answered with
\* "No Data Found".
C9_MissingFieldFaults ==
    /\ (PointsFetched /\ DOMAIN log[1].ret # {} /\ LacksForecastUrl(log[1].ret))
          => EndsInFault
    /\ (PointsFetched /\ DOMAIN log[1].ret = {})
          => pc = "returned" /\ result = Str(<<"No Data Found">>)
    /\ EarlyPeriodLacksField => EndsInFault

C9_Witness ==
    /\ EarlyPeriodLacksField
    /\ Len(FetchedPeriods) > 7
    /\ LacksField(FetchedPeriods[7])
    /\ Len(forecasts) = 6
    /\ exc = "KeyError"

\* C10: every fetcher invocation, pending or finished, failed or not, made
\* exactly one GET; get_alerts makes exactly one GET and get_forecast at
\* most two.
C10_OneGetPerFetch ==
    /\ gets = Len(log) + Cardinality(inflight)
    /\ (op = "get_alerts" /\ Done) => gets = 1
    /\ op = "get_forecast" => gets \in {1, 2}

C10_Witness ==
    /\ op = "get_forecast"
    /\ Done
    /\ Len(log) = 2
    /\ Failed(log[2].resp)
    /\ gets = 2

====
